---------------------------- MODULE Spec2Model ----------------------------
(***************************************************************************)
(* A model of cjktools/resources/tatoeba.py: the three Tatoeba readers.    *)
(*                                                                         *)
(*   SpecLinks  TatoebaLinksReader: __init__ and the links setter, one     *)
(*              row of the links source per step.                          *)
(*   SpecSent   TatoebaSentenceReader: __init__ and the sentences setter,  *)
(*              one row of the sentences source per step.                  *)
(*   SpecParse  TatoebaIndexReader.parse_sentence on an annotated text.    *)
(*   SpecAdjust TatoebaIndexReader.adjust_details on a word list.          *)
(*   SpecIndex  TatoebaIndexReader: __init__ and the jpn_indices setter,   *)
(*              one row of the annotation source per step.                 *)
(*                                                                         *)
(* Python values: None and "attribute not assigned" are the option value   *)
(* None, any other value v is Some(v); a dict is a function with a finite  *)
(* domain; a text is a sequence of one-character strings.                  *)
(***************************************************************************)
EXTENDS Integers, Sequences, FiniteSets, TLC

VARIABLES
    \* ---- TatoebaLinksReader
    lpc,                 \* "new", "loading", "done", "ValueError", "InvalidFileError"
    sentence_id_subset,  \* self._sentence_id_subset: None or Some(set of ids)
    sentence_ids_filter, \* the sentence_ids_filter argument: None before __init__
    filter_str,          \* self._sentence_ids_filter_str: None or Some(mode)
    filter_sent,         \* self._filter_sent
    filter_trans,        \* self._filter_trans
    link_dict,           \* the setter's local link_dict: id -> node id
    group_dict,          \* the setter's local group_dict: node id -> set of ids
    nodes,               \* the setter's local counter
    self_link_dict,      \* self._link_dict: None until the setter assigns it
    self_group_dict,     \* self._group_dict: None until the setter assigns it
    row,                 \* the last row read from the links source
    nrows,               \* number of rows read so far
    kept,                \* history: the edges that passed the filter so far
    last_kept,           \* history: the last row read passed the filter
    split,               \* history: a kept edge joined two different groups
    chain,               \* history: every edge shares an endpoint with the one before
    \* ---- TatoebaSentenceReader
    spc,                 \* "new", "first", "loading", "done", or the exception raised
    languages,           \* self.languages: None or Some(set of language tags)
    subset,              \* the test subclass's self._subset: None (base class) or Some(ids)
    sentences_detailed,  \* the setter's local flag
    language_dict,       \* the setter's local language_dict: lang -> set of ids
    sentence_dict,       \* the setter's local sentence_dict: id -> text
    detailed_info_dict,  \* the setter's local detailed_info_dict: None or Some(dict)
    self_sentence_dict,  \* self._sentence_dict: None until assigned
    self_language_dict,  \* self._language_dict: None until assigned
    self_detailed,       \* self._detailed_info_dict: None until assigned, else Some(local)
    srow,                \* the last row read from the sentences source
    snrows,              \* number of rows read so far
    ssrc,                \* history: the rows read so far (as a set)
    \* ---- TatoebaIndexReader.parse_sentence
    ppc,                 \* "input", "parsed", "InvalidEntryError"
    ptext,               \* the text passed to parse_sentence
    pn,                  \* history: the number of pieces ptext was put together from
    psentence,           \* the list parse_sentence returns
    perror,              \* the (word, text) the InvalidEntryError was formatted with
    \* ---- TatoebaIndexReader.adjust_details
    apc,                 \* "input", "adjusted"
    edict,               \* self.edict: None or Some(headword -> readings)
    asentence,           \* the word list passed to adjust_details (mutated by it)
    aresult,             \* the word list adjust_details returns
    awords,              \* history: the words as they were when passed
    \* ---- TatoebaIndexReader
    ipc,                 \* "new", "loading", "done", or the exception raised
    index_subset,        \* self._sentence_id_subset: None or Some(set of ids)
    index_sentence_dict, \* the setter's local sentence_dict: id -> word list
    index_link_dict,     \* the setter's local link_dict: id -> meaning id
    self_index_sentence_dict,  \* self._sentence_dict: None until assigned
    self_index_link_dict,      \* self._link_dict: None until assigned
    irow,                \* the last row read from the annotation source
    inrows               \* number of rows read so far

lvars == <<lpc, sentence_id_subset, sentence_ids_filter, filter_str, filter_sent, filter_trans,
           link_dict, group_dict, nodes, self_link_dict, self_group_dict,
           row, nrows, kept, last_kept, split, chain>>
svars == <<spc, languages, subset, sentences_detailed, language_dict,
           sentence_dict, detailed_info_dict, self_sentence_dict,
           self_language_dict, self_detailed, srow, snrows, ssrc>>
pvars == <<ppc, ptext, pn, psentence, perror>>
avars == <<apc, edict, asentence, aresult, awords>>
ivars == <<ipc, index_subset, index_sentence_dict, index_link_dict,
           self_index_sentence_dict, self_index_link_dict, irow, inrows>>
vars == <<lvars, svars, pvars, avars, ivars>>

---------------------------------------------------------------------------
(* Python values *)

None == [some |-> FALSE]
Some(v) == [some |-> TRUE, val |-> v]

(* The outcome of a call: the exception raised, or the value returned. *)
Raised(e) == [exc |-> e, val |-> None]

Returned(v) == [exc |-> "", val |-> Some(v)]

EmptyDict == [k \in {} |-> 0]

DictSet(d, k, v) == [x \in (DOMAIN d) \cup {k} |-> IF x = k THEN v ELSE d[x]]

Range(f) == {f[x] : x \in DOMAIN f}

(* int(text): the decimal value of a non-empty run of digits, ValueError
   (None) for anything else the model's alphabet can spell. *)
Digits == {"0", "1", "2", "3", "4", "5", "6", "7", "8", "9"}

DigitVal(c) ==
    CASE c = "0" -> 0 [] c = "1" -> 1 [] c = "2" -> 2 [] c = "3" -> 3
      [] c = "4" -> 4 [] c = "5" -> 5 [] c = "6" -> 6 [] c = "7" -> 7
      [] c = "8" -> 8 [] c = "9" -> 9

RECURSIVE DecimalValue(_)
DecimalValue(s) ==
    IF s = << >> THEN 0
    ELSE 10 * DecimalValue(SubSeq(s, 1, Len(s) - 1)) + DigitVal(s[Len(s)])

IsDigits(s) == Len(s) > 0 /\ \A i \in 1..Len(s) : s[i] \in Digits

PyInt(s) == IF IsDigits(s) THEN Some(DecimalValue(s)) ELSE None

---------------------------------------------------------------------------
(* TatoebaLinksReader *)

MaxRows == 3

LinkCols == 2

LinkFields == {<<"1">>, <<"2">>, <<"3">>, <<"0", "4">>, <<"x">>}

(* Rows of the links source: every row of at most two fields, and rows of
   three fields. *)
LinkRows ==
    UNION {[1..n -> LinkFields] : n \in 0..LinkCols}
        \cup [1..(LinkCols + 1) -> {<<"1">>, <<"x">>}]

Ids == {1, 2, 3, 4}

SentenceIdsArgs == {None, Some({}), Some({1, 2}), Some({2, 3, 4})}

FilterArgs == {"sent_id", "trans_id", "both", "BOTH", "sentence_id"}

Lower(s) == IF s = "BOTH" THEN "both" ELSE s

filter_values == [m \in {"sent_id", "trans_id", "both"} |->
                    CASE m = "sent_id" -> <<TRUE, FALSE>>
                      [] m = "trans_id" -> <<FALSE, TRUE>>
                      [] m = "both" -> <<TRUE, TRUE>>]

SwappedFilterValues(valstr, ids) ==
    IF ~ids.some THEN <<FALSE, FALSE>>
    ELSE <<filter_values[valstr][2], filter_values[valstr][1]>>

(* _sentence_ids_filter after the mode was accepted: the two flags. *)
SentenceIdsFilter(valstr, ids) ==
    IF ~ids.some THEN <<FALSE, FALSE>> ELSE filter_values[valstr]

LooseParseLinkRow(r) ==
    IF Len(r) < LinkCols THEN None
    ELSE IF \E i \in 1..LinkCols : ~PyInt(r[i]).some THEN None
    ELSE Some(<<PyInt(r[1]).val, PyInt(r[2]).val>>)

(* sent_id, trans_id = map(int, row): ValueError (None) unless the row has
   exactly two fields and int() accepts both. *)
ParseLinkRow(r) ==
    IF Len(r) # LinkCols THEN None
    ELSE IF \E i \in 1..LinkCols : ~PyInt(r[i]).some THEN None
    ELSE Some(<<PyInt(r[1]).val, PyInt(r[2]).val>>)

(* The condition of the `continue`. *)
Dropped(fs, ft, ids, sent_id, trans_id) ==
    \/ (fs /\ sent_id \notin ids.val)
    \/ (ft /\ trans_id \notin ids.val)

Grouped(ld, gd, n, node_id, new_ids) ==
    [link_dict |-> [k \in (DOMAIN ld) \cup new_ids |->
                        IF k \in new_ids THEN node_id ELSE ld[k]],
     group_dict |-> DictSet(gd, node_id,
                        (IF node_id \in DOMAIN gd THEN gd[node_id] ELSE {})
                            \cup new_ids),
     nodes |-> n]

SentOnlyLinkStep(ld, gd, n, sent_id, trans_id) ==
    IF sent_id \in DOMAIN ld
    THEN Grouped(ld, gd, n, ld[sent_id], {trans_id})
    ELSE Grouped(ld, gd, n + 1, n, {trans_id, sent_id})

UnassignedLinkStep(ld, gd, n, sent_id, trans_id) ==
    IF sent_id \in DOMAIN ld
    THEN Grouped(ld, gd, n, ld[sent_id], {trans_id})
    ELSE IF trans_id \in DOMAIN ld
    THEN [Grouped(ld, gd, n, ld[trans_id], {sent_id}) EXCEPT !.link_dict = ld]
    ELSE Grouped(ld, gd, n + 1, n, {trans_id, sent_id})

UnlistedLinkStep(ld, gd, n, sent_id, trans_id) ==
    IF sent_id \in DOMAIN ld
    THEN Grouped(ld, gd, n, ld[sent_id], {trans_id})
    ELSE IF trans_id \in DOMAIN ld
    THEN [Grouped(ld, gd, n, ld[trans_id], {sent_id}) EXCEPT !.group_dict = gd]
    ELSE Grouped(ld, gd, n + 1, n, {trans_id, sent_id})

MergingLinkStep(ld, gd, n, sent_id, trans_id) ==
    IF sent_id \in DOMAIN ld
    THEN Grouped(ld, gd, n, ld[sent_id],
                 IF trans_id \in DOMAIN ld THEN gd[ld[trans_id]] \cup {trans_id}
                 ELSE {trans_id})
    ELSE IF trans_id \in DOMAIN ld
    THEN Grouped(ld, gd, n, ld[trans_id], {sent_id})
    ELSE Grouped(ld, gd, n + 1, n, {trans_id, sent_id})

MovingLinkStep(ld, gd, n, sent_id, trans_id) ==
    IF sent_id \in DOMAIN ld
    THEN Grouped(ld,
                 [k \in DOMAIN gd |->
                     IF trans_id \in DOMAIN ld /\ k = ld[trans_id]
                         /\ k # ld[sent_id]
                     THEN gd[k] \ {trans_id} ELSE gd[k]],
                 n, ld[sent_id], {trans_id})
    ELSE IF trans_id \in DOMAIN ld
    THEN Grouped(ld, gd, n, ld[trans_id], {sent_id})
    ELSE Grouped(ld, gd, n + 1, n, {trans_id, sent_id})

NoIncrementLinkStep(ld, gd, n, sent_id, trans_id) ==
    IF sent_id \in DOMAIN ld
    THEN Grouped(ld, gd, n, ld[sent_id], {trans_id})
    ELSE IF trans_id \in DOMAIN ld
    THEN Grouped(ld, gd, n, ld[trans_id], {sent_id})
    ELSE Grouped(ld, gd, n, n, {trans_id, sent_id})

(* The body of the loop for a kept edge: node_id, new_ids, then the three
   updates. *)
LinkStep(ld, gd, n, sent_id, trans_id) ==
    IF sent_id \in DOMAIN ld
    THEN Grouped(ld, gd, n, ld[sent_id], {trans_id})
    ELSE IF trans_id \in DOMAIN ld
    THEN Grouped(ld, gd, n, ld[trans_id], {sent_id})
    ELSE Grouped(ld, gd, n + 1, n, {trans_id, sent_id})

(* self[key]: self._group_dict[self._link_dict[key]].  Before the setter
   has assigned the two dicts the attribute read is an AttributeError. *)
LinksGetItem(key) ==
    IF ~self_group_dict.some \/ ~self_link_dict.some THEN Raised("AttributeError")
    ELSE IF key \notin DOMAIN self_link_dict.val THEN Raised("KeyError")
    ELSE IF self_link_dict.val[key] \notin DOMAIN self_group_dict.val
    THEN Raised("KeyError")
    ELSE Returned(self_group_dict.val[self_link_dict.val[key]])

(* group(sent_id): a KeyError becomes InvalidIDError. *)
Group(sent_id) ==
    IF LinksGetItem(sent_id).exc = "KeyError" THEN Raised("InvalidIDError")
    ELSE LinksGetItem(sent_id)

(* groups(): the values of self._group_dict (as a set of groups). *)
Groups ==
    IF ~self_group_dict.some THEN Raised("AttributeError")
    ELSE Returned(Range(self_group_dict.val))

LinksIdle ==
    /\ lpc = "new"
    /\ sentence_id_subset = None
    /\ sentence_ids_filter = None
    /\ filter_str = None
    /\ filter_sent = FALSE
    /\ filter_trans = FALSE
    /\ link_dict = EmptyDict
    /\ group_dict = EmptyDict
    /\ nodes = 0
    /\ self_link_dict = None
    /\ self_group_dict = None
    /\ row = << >>
    /\ nrows = 0
    /\ kept = {}
    /\ last_kept = FALSE
    /\ split = FALSE
    /\ chain = TRUE

LateCheckLinksInit(sentence_ids, mode) ==
    /\ lpc = "new"
    /\ sentence_id_subset' = sentence_ids
    /\ sentence_ids_filter' = Some(mode)
    /\ IF sentence_ids.some /\ Lower(mode) \notin DOMAIN filter_values
       THEN /\ lpc' = "ValueError"
            /\ UNCHANGED <<filter_str, filter_sent, filter_trans>>
       ELSE /\ lpc' = "loading"
            /\ filter_sent' = (sentence_ids.some /\ filter_values[Lower(mode)][1])
            /\ filter_trans' = (sentence_ids.some /\ filter_values[Lower(mode)][2])
            /\ filter_str' = Some(Lower(mode))
    /\ UNCHANGED <<link_dict, group_dict, nodes, self_link_dict,
                   self_group_dict, row, nrows, kept, last_kept, split, chain>>

(* __init__ up to the assignment of self.links. *)
LinksInit(sentence_ids, mode) ==
    /\ lpc = "new"
    /\ sentence_id_subset' = sentence_ids
    /\ sentence_ids_filter' = Some(mode)
    /\ IF Lower(mode) \notin DOMAIN filter_values
       THEN /\ lpc' = "ValueError"
            /\ UNCHANGED <<filter_str, filter_sent, filter_trans>>
       ELSE /\ lpc' = "loading"
            /\ filter_sent' = SentenceIdsFilter(Lower(mode), sentence_ids)[1]
            /\ filter_trans' = SentenceIdsFilter(Lower(mode), sentence_ids)[2]
            /\ filter_str' = Some(Lower(mode))
    /\ UNCHANGED <<link_dict, group_dict, nodes, self_link_dict,
                   self_group_dict, row, nrows, kept, last_kept, split, chain>>

SharesEndpoint(r1, r2) ==
    LET e1 == ParseLinkRow(r1).val
        e2 == ParseLinkRow(r2).val
    IN  {e1[1], e1[2]} \cap {e2[1], e2[2]} # {}

(* One iteration of the loop over the rows of the links source. *)
LinksRow(r) ==
    /\ lpc = "loading"
    /\ nrows < MaxRows
    /\ row' = r
    /\ nrows' = nrows + 1
    /\ UNCHANGED <<sentence_id_subset, sentence_ids_filter, filter_str,
                   filter_sent, filter_trans, self_link_dict, self_group_dict>>
    /\ IF ~ParseLinkRow(r).some
       THEN /\ lpc' = "InvalidFileError"
            /\ UNCHANGED <<link_dict, group_dict, nodes, kept, last_kept,
                           split, chain>>
       ELSE LET sent_id == ParseLinkRow(r).val[1]
                trans_id == ParseLinkRow(r).val[2]
            IN  /\ lpc' = "loading"
                /\ chain' = (chain /\ (nrows = 0 \/ SharesEndpoint(row, r)))
                /\ IF Dropped(filter_sent, filter_trans, sentence_id_subset,
                              sent_id, trans_id)
                   THEN /\ last_kept' = FALSE
                        /\ UNCHANGED <<link_dict, group_dict, nodes, kept, split>>
                   ELSE LET s == LinkStep(link_dict, group_dict, nodes,
                                          sent_id, trans_id)
                        IN  /\ last_kept' = TRUE
                            /\ link_dict' = s.link_dict
                            /\ group_dict' = s.group_dict
                            /\ nodes' = s.nodes
                            /\ kept' = kept \cup {<<sent_id, trans_id>>}
                            /\ split' = (split \/
                                  (/\ sent_id \in DOMAIN link_dict
                                   /\ trans_id \in DOMAIN link_dict
                                   /\ link_dict[sent_id] # link_dict[trans_id]))

(* The end of the source: the two assignments that publish the result. *)
LinksFinish ==
    /\ lpc = "loading"
    /\ lpc' = "done"
    /\ self_link_dict' = Some(link_dict)
    /\ self_group_dict' = Some(group_dict)
    /\ UNCHANGED <<sentence_id_subset, sentence_ids_filter, filter_str,
                   filter_sent, filter_trans, link_dict, group_dict, nodes,
                   row, nrows, kept, last_kept, split, chain>>

---------------------------------------------------------------------------
(* TatoebaSentenceReader *)

MaxSentRows == 3

SentIdFields == {<<"1">>, <<"0", "2">>, <<"x">>}

Langs == {"jpn", "fra"}

Texts == {"a", "b"}

Timestamp == "2010-06-24 14:20:28"

DetailFields == {<<"\\N", "\\N", "\\N">>, <<"MB", Timestamp, "\\N">>,
                 <<"MB", "\\N", "bad">>}

Rows3 == {<<i, l, t>> : i \in SentIdFields, l \in Langs, t \in Texts}

Rows6 == {<<i, "jpn", "a">> \o d : i \in SentIdFields, d \in DetailFields}

OddRowBases == {<<<<"0", "2">>, "jpn", "b", "MB", Timestamp, "\\N", "\\N">>,
                <<<<"1">>, "fra", "a", "\\N", "\\N", "\\N", "\\N">>}

(* Rows with a column count other than 3 or 6. *)
OddRows == {SubSeq(r, 1, n) : r \in OddRowBases, n \in {0, 2, 4, 5, 7}}

SentRows == Rows3 \cup Rows6 \cup OddRows

LanguagesArgs == {None, Some({"jpn", "eng"}), Some({"fra"})}

SubsetArgs == {None, Some({1})}

(* datetime.strptime(dtstr, datetime_format) on the model's date texts. *)
Strptime(dtstr) ==
    IF dtstr = Timestamp THEN Some(<<2010, 6, 24, 14, 20, 28>>) ELSE None

(* parse_date: [exc, val]; val is None for \N. *)
ParseDate(dtstr) ==
    IF dtstr = "\\N" THEN [exc |-> "", val |-> None]
    ELSE IF Strptime(dtstr).some THEN [exc |-> "", val |-> Strptime(dtstr)]
    ELSE [exc |-> "ValueError", val |-> None]

(* filter_row: [exc, skip].  The base class keeps every row; the test's
   subclass (sub is Some) skips the rows whose id is not in its subset. *)
FilterRow(sub, r) ==
    IF ~sub.some THEN [exc |-> "", skip |-> FALSE]
    ELSE IF Len(r) = 0 THEN [exc |-> "IndexError", skip |-> FALSE]
    ELSE IF ~PyInt(r[1]).some THEN [exc |-> "ValueError", skip |-> FALSE]
    ELSE [exc |-> "", skip |-> PyInt(r[1]).val \notin sub.val]

SentOut(exc, ld, sd, dd) ==
    [exc |-> exc, language_dict |-> ld, sentence_dict |-> sd,
     detailed_info_dict |-> dd]

SetAdd(ld, lang, id) ==
    DictSet(ld, lang, (IF lang \in DOMAIN ld THEN ld[lang] ELSE {}) \cup {id})

(* The detailed part of the loop body, after the two dicts were updated. *)
DetailStep(ld, sd, dd, r, id) ==
    IF Len(r) < 6 THEN SentOut("ValueError", ld, sd, dd)
    ELSE IF ParseDate(r[5]).exc # "" \/ ParseDate(r[6]).exc # ""
    THEN SentOut("ValueError", ld, sd, dd)
    ELSE SentOut("", ld, sd,
                 Some(DictSet(dd.val, id,
                      <<(IF r[4] = "\\N" THEN None ELSE Some(r[4])),
                        ParseDate(r[5]).val, ParseDate(r[6]).val>>)))

UnfilteredSentenceRow(ld, sd, dd, detailed, langs, sub, r) ==
    IF FilterRow(sub, r).exc # "" THEN SentOut(FilterRow(sub, r).exc, ld, sd, dd)
    ELSE IF FilterRow(sub, r).skip THEN SentOut("", ld, sd, dd)
    ELSE IF Len(r) < 3 THEN SentOut("ValueError", ld, sd, dd)
    ELSE IF ~PyInt(r[1]).some THEN SentOut("ValueError", ld, sd, dd)
    ELSE LET id == PyInt(r[1]).val
             ld2 == SetAdd(ld, r[2], id)
             sd2 == DictSet(sd, id, r[3])
         IN  IF detailed THEN DetailStep(ld2, sd2, dd, r, id)
             ELSE SentOut("", ld2, sd2, dd)

(* The body of the loop over the rows: the exception it raises ("" for
   none) and the three local dicts after it. *)
SentenceRow(ld, sd, dd, detailed, langs, sub, r) ==
    IF FilterRow(sub, r).exc # "" THEN SentOut(FilterRow(sub, r).exc, ld, sd, dd)
    ELSE IF FilterRow(sub, r).skip THEN SentOut("", ld, sd, dd)
    ELSE IF Len(r) < 3 THEN SentOut("ValueError", ld, sd, dd)
    ELSE IF langs.some /\ r[2] \notin langs.val THEN SentOut("", ld, sd, dd)
    ELSE IF ~PyInt(r[1]).some THEN SentOut("ValueError", ld, sd, dd)
    ELSE LET id == PyInt(r[1]).val
             ld2 == SetAdd(ld, r[2], id)
             sd2 == DictSet(sd, id, r[3])
         IN  IF detailed THEN DetailStep(ld2, sd2, dd, r, id)
             ELSE SentOut("", ld2, sd2, dd)

(* sentence(sent_id): self[sent_id] through _base_dict; a KeyError becomes
   InvalidIDError, and before the setter has assigned self._sentence_dict
   the attribute read is an AttributeError. *)
Sentence(sent_id) ==
    IF ~self_sentence_dict.some THEN Raised("AttributeError")
    ELSE IF sent_id \notin DOMAIN self_sentence_dict.val
    THEN Raised("InvalidIDError")
    ELSE Returned(self_sentence_dict.val[sent_id])

UncheckedDetails(sent_id) ==
    IF ~self_detailed.some THEN [exc |-> "AttributeError", val |-> None]
    ELSE IF ~self_detailed.val.some \/ sent_id \notin DOMAIN self_detailed.val.val
    THEN [exc |-> "InvalidIDError", val |-> None]
    ELSE [exc |-> "", val |-> Some(self_detailed.val.val[sent_id])]

(* details(sent_id): [exc, val]; reading self._detailed_info_dict before
   the setter assigned it is an AttributeError. *)
Details(sent_id) ==
    IF ~self_detailed.some THEN [exc |-> "AttributeError", val |-> None]
    ELSE IF ~self_detailed.val.some
    THEN [exc |-> "MissingDataError", val |-> None]
    ELSE IF sent_id \notin DOMAIN self_detailed.val.val
    THEN [exc |-> "InvalidIDError", val |-> None]
    ELSE [exc |-> "", val |-> Some(self_detailed.val.val[sent_id])]

SentIdle ==
    /\ spc = "new"
    /\ languages = None
    /\ subset = None
    /\ sentences_detailed = FALSE
    /\ language_dict = EmptyDict
    /\ sentence_dict = EmptyDict
    /\ detailed_info_dict = None
    /\ self_sentence_dict = None
    /\ self_language_dict = None
    /\ self_detailed = None
    /\ srow = << >>
    /\ snrows = 0
    /\ ssrc = {}

(* __init__ up to the assignment of self.sentences. *)
SentInit(langs, sub) ==
    /\ spc = "new"
    /\ spc' = "first"
    /\ languages' = langs
    /\ subset' = sub
    /\ UNCHANGED <<sentences_detailed, language_dict, sentence_dict,
                   detailed_info_dict, self_sentence_dict, self_language_dict,
                   self_detailed, srow, snrows, ssrc>>

(* next(sentence_gen) on a source with no rows. *)
SentEmpty ==
    /\ spc = "first"
    /\ spc' = "StopIteration"
    /\ UNCHANGED <<languages, subset, sentences_detailed, language_dict,
                   sentence_dict, detailed_info_dict, self_sentence_dict,
                   self_language_dict, self_detailed, srow, snrows, ssrc>>

(* The loop body on row r, from the local dicts ld, sd, dd. *)
SentBody(detailed, ld, sd, dd, r) ==
    LET out == SentenceRow(ld, sd, dd, detailed, languages, subset, r)
    IN  /\ spc' = (IF out.exc = "" THEN "loading" ELSE out.exc)
        /\ language_dict' = out.language_dict
        /\ sentence_dict' = out.sentence_dict
        /\ detailed_info_dict' = out.detailed_info_dict

(* The first row: the format is inferred from its length, the dicts are
   prepared, and the row goes through the loop body. *)
SentFirstRow(r) ==
    /\ spc = "first"
    /\ srow' = r
    /\ snrows' = 1
    /\ ssrc' = {r}
    /\ UNCHANGED <<languages, subset, self_sentence_dict, self_language_dict,
                   self_detailed>>
    /\ IF Len(r) \notin {3, 6}
       THEN /\ spc' = "InvalidFileError"
            /\ UNCHANGED <<sentences_detailed, language_dict, sentence_dict,
                           detailed_info_dict>>
       ELSE /\ sentences_detailed' = (Len(r) = 6)
            /\ SentBody(Len(r) = 6, EmptyDict, EmptyDict,
                        (IF Len(r) = 6 THEN Some(EmptyDict) ELSE None), r)

(* A later row. *)
SentRow(r) ==
    /\ spc = "loading"
    /\ snrows < MaxSentRows
    /\ srow' = r
    /\ snrows' = snrows + 1
    /\ ssrc' = ssrc \cup {r}
    /\ UNCHANGED <<languages, subset, sentences_detailed, self_sentence_dict,
                   self_language_dict, self_detailed>>
    /\ SentBody(sentences_detailed, language_dict, sentence_dict,
                detailed_info_dict, r)

(* The end of the source: the three assignments. *)
SentFinish ==
    /\ spc = "loading"
    /\ spc' = "done"
    /\ self_language_dict' = Some(language_dict)
    /\ self_sentence_dict' = Some(sentence_dict)
    /\ self_detailed' = Some(detailed_info_dict)
    /\ UNCHANGED <<languages, subset, sentences_detailed, language_dict,
                   sentence_dict, detailed_info_dict, srow, snrows, ssrc>>

---------------------------------------------------------------------------
(* TatoebaIndexReader.parse_sentence *)

MaxPieces == 5

(* The annotated texts are the concatenations of at most MaxPieces of
   these pieces. *)
Pieces == {<<"a">>, <<"(", "k", ")">>, <<"[", "0", "2", "]">>,
           <<"{", "d", "}">>, <<"~">>, <<"2">>, <<" ">>, <<"(">>, <<")">>,
           <<"|">>}

Min(S) == CHOOSE x \in S : \A y \in S : x <= y

(* The characters the headword class [^\(\[\{\|\~] excludes. *)
HeadwordExcluded == {"(", "[", "{", "|", "~"}

(* sentence_splitter: x.split(' '). *)
RECURSIVE SentenceSplitter(_)
SentenceSplitter(x) ==
    LET sp == {i \in 1..Len(x) : x[i] = " "}
    IN  IF sp = {} THEN <<x>>
        ELSE <<SubSeq(x, 1, Min(sp) - 1)>>
                 \o SentenceSplitter(SubSeq(x, Min(sp) + 1, Len(x)))

(* The longest run of headword characters at the start of w. *)
HeadwordLen(w) ==
    LET bad == {i \in 1..Len(w) : w[i] \in HeadwordExcluded}
    IN  IF bad = {} THEN Len(w) ELSE Min(bad) - 1

(* An optional group open [^close]+ close at position pos: the index of
   the closing character, or 0 when the group does not match there. *)
Bracketed(w, pos, open, close) ==
    IF pos > Len(w) \/ w[pos] # open THEN 0
    ELSE LET cl == {i \in (pos + 1)..Len(w) : w[i] = close}
         IN  IF cl = {} \/ Min(cl) = pos + 1 THEN 0 ELSE Min(cl)

(* The optional group \[ \d+ \] at position pos, likewise. *)
SenseGroup(w, pos) ==
    IF pos > Len(w) \/ w[pos] # "[" THEN 0
    ELSE LET nd == {i \in (pos + 1)..Len(w) : w[i] \notin Digits}
         IN  IF nd = {} \/ Min(nd) = pos + 1 \/ w[Min(nd)] # "]" THEN 0
             ELSE Min(nd)

Groups5(headword, reading, sense, display, example) ==
    [headword |-> headword, reading |-> reading, sense |-> sense,
     display |-> display, example |-> example]

FullMatchWord(w) ==
    LET h == HeadwordLen(w)
        r == Bracketed(w, h + 1, "(", ")")
        p1 == IF r = 0 THEN h + 1 ELSE r + 1
        s == SenseGroup(w, p1)
        p2 == IF s = 0 THEN p1 ELSE s + 1
        d == Bracketed(w, p2, "{", "}")
        p3 == IF d = 0 THEN p2 ELSE d + 1
        e == p3 <= Len(w) /\ w[p3] = "~"
        p4 == IF e THEN p3 + 1 ELSE p3
    IN  IF h = 0 \/ p4 <= Len(w) THEN None
        ELSE Some(Groups5(SubSeq(w, 1, h),
                  (IF r = 0 THEN None ELSE Some(SubSeq(w, h + 2, r - 1))),
                  (IF s = 0 THEN None ELSE Some(SubSeq(w, p1 + 1, s - 1))),
                  (IF d = 0 THEN None ELSE Some(SubSeq(w, p2 + 1, d - 1))),
                  (IF e THEN Some(<<"~">>) ELSE None)))

NoDisplayMatchWord(w) ==
    LET h == HeadwordLen(w)
        r == Bracketed(w, h + 1, "(", ")")
        p1 == IF r = 0 THEN h + 1 ELSE r + 1
        s == SenseGroup(w, p1)
        p2 == IF s = 0 THEN p1 ELSE s + 1
        d == Bracketed(w, p2, "{", "}")
        p3 == IF d = 0 THEN p2 ELSE d + 1
        e == p3 <= Len(w) /\ w[p3] = "~"
    IN  IF h = 0 THEN None
        ELSE Some(Groups5(SubSeq(w, 1, h),
                  (IF r = 0 THEN None ELSE Some(SubSeq(w, h + 2, r - 1))),
                  (IF s = 0 THEN None ELSE Some(SubSeq(w, p1 + 1, s - 1))),
                  None,
                  (IF e THEN Some(<<"~">>) ELSE None)))

(* word_re.match(word): None when nothing matches at the start of the
   word, else the five named groups.  The headword run is greedy and is
   never given back, since every later group is optional; each optional
   group is taken where it matches; the last group (?:|\d+) takes its
   empty alternative; the match need not reach the end of the word. *)
MatchWord(w) ==
    LET h == HeadwordLen(w)
        r == Bracketed(w, h + 1, "(", ")")
        p1 == IF r = 0 THEN h + 1 ELSE r + 1
        s == SenseGroup(w, p1)
        p2 == IF s = 0 THEN p1 ELSE s + 1
        d == Bracketed(w, p2, "{", "}")
        p3 == IF d = 0 THEN p2 ELSE d + 1
        e == p3 <= Len(w) /\ w[p3] = "~"
    IN  IF h = 0 THEN None
        ELSE Some(Groups5(SubSeq(w, 1, h),
                  (IF r = 0 THEN None ELSE Some(SubSeq(w, h + 2, r - 1))),
                  (IF s = 0 THEN None ELSE Some(SubSeq(w, p1 + 1, s - 1))),
                  (IF d = 0 THEN None ELSE Some(SubSeq(w, p2 + 1, d - 1))),
                  (IF e THEN Some(<<"~">>) ELSE None)))

(* The WordClass object built from the groups, after the two conversions of
   parse_sentence. *)
TanakaWord(m) ==
    [headword |-> m.headword,
     reading |-> m.reading,
     sense |-> IF m.sense.some THEN PyInt(m.sense.val) ELSE None,
     display |-> m.display,
     example |-> m.example.some]

(* The loop of parse_sentence over the words from index i on, with the
   list built so far: [exc, sentence, word]. *)
RECURSIVE ParseWords(_, _, _)
ParseWords(words, i, sentence) ==
    IF i > Len(words) THEN [exc |-> "", sentence |-> sentence, word |-> << >>]
    ELSE IF Len(words[i]) = 0 THEN ParseWords(words, i + 1, sentence)
    ELSE IF ~MatchWord(words[i]).some
    THEN [exc |-> "InvalidEntryError", sentence |-> sentence, word |-> words[i]]
    ELSE ParseWords(words, i + 1,
                    Append(sentence, TanakaWord(MatchWord(words[i]).val)))

ParseSentenceOf(text) == ParseWords(SentenceSplitter(text), 1, << >>)

ParseIdle ==
    /\ ppc = "input"
    /\ ptext = << >>
    /\ pn = 0
    /\ psentence = << >>
    /\ perror = None

(* The caller's text grows by one piece. *)
TextPiece(p) ==
    /\ ppc = "input"
    /\ pn < MaxPieces
    /\ ptext' = ptext \o p
    /\ pn' = pn + 1
    /\ UNCHANGED <<ppc, psentence, perror>>

(* parse_sentence(text). *)
ParseSentence ==
    /\ ppc = "input"
    /\ LET out == ParseSentenceOf(ptext)
       IN  IF out.exc = ""
           THEN /\ ppc' = "parsed"
                /\ psentence' = out.sentence
                /\ perror' = None
           ELSE /\ ppc' = out.exc
                /\ psentence' = << >>
                /\ perror' = Some(<<out.word, ptext>>)
    /\ UNCHANGED <<ptext, pn>>

---------------------------------------------------------------------------
(* TatoebaIndexReader.adjust_details *)

MaxWords == 2

Headwords == {<<"a">>, <<"b">>}

Senses == {None, Some(0), Some(1), Some(2), Some(3)}

(* The words adjust_details is given: what parse_sentence can return. *)
Words == {[headword |-> h, reading |-> r, sense |-> s, display |-> d.display,
           example |-> d.example] :
             h \in Headwords, r \in {None, Some(<<"k">>)}, s \in Senses,
             d \in {[display |-> None, example |-> FALSE],
                    [display |-> Some(<<"d">>), example |-> TRUE]}}

Sentences == UNION {[1..n -> Words] : n \in 0..MaxWords}

(* self.edict: headword -> readings of its entry. *)
Edicts == {None,
           Some([h \in {<<"a">>} |-> <<<<"k">>>>]),
           Some([h \in {<<"a">>} |-> <<<<"k">>, <<"k">>>>]),
           Some([h \in {<<"a">>} |-> <<<<"k">>, <<"m">>>>]),
           Some([h \in {<<"a">>} |-> <<<<"a">>, <<"k">>>>])}

(* readings[i] for a Python index i with -len <= i < len. *)
PyIndex(readings, i) ==
    IF i < 0 THEN readings[Len(readings) + i + 1] ELSE readings[i + 1]

SelfReadingAdjustWord(ed, word) ==
    IF word.headword \notin DOMAIN ed THEN word
    ELSE IF word.reading.some THEN word
    ELSE LET readings == ed[word.headword]
             reading ==
                 IF word.sense.some /\ word.sense.val <= Len(readings)
                 THEN Some(PyIndex(readings, word.sense.val - 1))
                 ELSE IF Cardinality(Range(readings)) = 1
                 THEN Some(readings[1])
                 ELSE None
         IN  [word EXCEPT !.reading = reading]

(* The body of the loop of adjust_details for one word. *)
AdjustWord(ed, word) ==
    IF word.headword \notin DOMAIN ed THEN word
    ELSE IF word.reading.some THEN word
    ELSE LET readings == ed[word.headword]
             reading ==
                 IF word.sense.some /\ word.sense.val <= Len(readings)
                 THEN Some(PyIndex(readings, word.sense.val - 1))
                 ELSE IF Cardinality(Range(readings)) = 1
                 THEN Some(readings[1])
                 ELSE None
         IN  IF reading # Some(word.headword)
             THEN [word EXCEPT !.reading = reading]
             ELSE word

AdjustDetailsOf(ed, sentence) ==
    IF ~ed.some THEN sentence
    ELSE [i \in 1..Len(sentence) |-> AdjustWord(ed.val, sentence[i])]

AdjustIdle ==
    /\ apc = "input"
    /\ edict = None
    /\ asentence = << >>
    /\ aresult = << >>
    /\ awords = << >>

AdjustInput ==
    /\ apc = "input"
    /\ edict \in Edicts
    /\ asentence \in Sentences
    /\ aresult = << >>
    /\ awords = asentence

(* adjust_details(sentence): the words of the list passed are mutated and
   that same list is returned. *)
AdjustDetails ==
    /\ apc = "input"
    /\ apc' = "adjusted"
    /\ asentence' = AdjustDetailsOf(edict, asentence)
    /\ aresult' = AdjustDetailsOf(edict, asentence)
    /\ UNCHANGED <<edict, awords>>

---------------------------------------------------------------------------
(* TatoebaIndexReader: __init__ and the jpn_indices setter *)

MaxIndexRows == 3

IndexCols == 3

IndexTexts == {<<"a">>, <<"b", " ", "a", "~">>, <<"(">>}

(* Rows of the annotation source: id, meaning id and text, and rows with a
   column too few or too many. *)
IndexRows ==
    {<<i, m, t>> : i \in {<<"1">>, <<"2">>, <<"3">>, <<"x">>},
                   m \in {<<"4">>, <<"x">>}, t \in IndexTexts}
        \cup {<<<<"1">>, <<"4">>>>, <<<<"1">>, <<"4">>, <<"a">>, <<"a">>>>}

IndexSentenceIdsArgs == {None, Some({}), Some({1, 2})}

IndexEdictArgs == {None, Some([h \in {<<"a">>} |-> <<<<"k">>>>])}

IndexOut(exc, sd, ld) == [exc |-> exc, sentence_dict |-> sd, link_dict |-> ld]

(* The body of the setter's loop on row r: the exception raised ("" for
   none) and the two local dicts after it. *)
IndexRowStep(sd, ld, ed, r) ==
    IF Len(r) # IndexCols THEN IndexOut("ValueError", sd, ld)
    ELSE IF ~PyInt(r[1]).some \/ ~PyInt(r[2]).some
    THEN IndexOut("ValueError", sd, ld)
    ELSE LET sent_id == PyInt(r[1]).val
             ld2 == DictSet(ld, sent_id, PyInt(r[2]).val)
             parsed == ParseSentenceOf(r[3])
         IN  IF parsed.exc # "" THEN IndexOut(parsed.exc, sd, ld2)
             ELSE IndexOut("", DictSet(sd, sent_id,
                                       AdjustDetailsOf(ed, parsed.sentence)),
                           ld2)

(* self[sent_id] through _base_dict: the word list, KeyError for an id
   that is not a key, AttributeError before self._sentence_dict is
   assigned. *)
IndexGetItem(sent_id) ==
    IF ~self_index_sentence_dict.some THEN Raised("AttributeError")
    ELSE IF sent_id \notin DOMAIN self_index_sentence_dict.val
    THEN Raised("KeyError")
    ELSE Returned(self_index_sentence_dict.val[sent_id])

(* link(sent_id): the meaning id; a KeyError becomes InvalidIDError. *)
Link(sent_id) ==
    IF ~self_index_link_dict.some THEN Raised("AttributeError")
    ELSE IF sent_id \notin DOMAIN self_index_link_dict.val
    THEN Raised("InvalidIDError")
    ELSE Returned(self_index_link_dict.val[sent_id])

IndexIdle ==
    /\ ipc = "new"
    /\ index_subset = None
    /\ index_sentence_dict = EmptyDict
    /\ index_link_dict = EmptyDict
    /\ self_index_sentence_dict = None
    /\ self_index_link_dict = None
    /\ irow = << >>
    /\ inrows = 0

(* __init__ up to the assignment of self.jpn_indices. *)
IndexInit(ed, sentence_ids) ==
    /\ ipc = "new"
    /\ ipc' = "loading"
    /\ index_subset' = sentence_ids
    /\ edict' = ed
    /\ UNCHANGED <<apc, asentence, aresult, awords, index_sentence_dict,
                   index_link_dict, self_index_sentence_dict,
                   self_index_link_dict, irow, inrows>>

(* One iteration of the loop over the rows of the annotation source. *)
IndexRow(r) ==
    /\ ipc = "loading"
    /\ inrows < MaxIndexRows
    /\ irow' = r
    /\ inrows' = inrows + 1
    /\ LET out == IndexRowStep(index_sentence_dict, index_link_dict, edict, r)
       IN  /\ ipc' = (IF out.exc = "" THEN "loading" ELSE out.exc)
           /\ index_sentence_dict' = out.sentence_dict
           /\ index_link_dict' = out.link_dict
    /\ UNCHANGED <<avars, index_subset, self_index_sentence_dict,
                   self_index_link_dict>>

(* The end of the source: the two assignments. *)
IndexFinish ==
    /\ ipc = "loading"
    /\ ipc' = "done"
    /\ self_index_sentence_dict' = Some(index_sentence_dict)
    /\ self_index_link_dict' = Some(index_link_dict)
    /\ UNCHANGED <<avars, index_subset, index_sentence_dict, index_link_dict,
                   irow, inrows>>

---------------------------------------------------------------------------
(* Specifications *)

InitLinks == LinksIdle /\ SentIdle /\ ParseIdle /\ AdjustIdle /\ IndexIdle

NextLinks ==
    \/ \E sentence_ids \in SentenceIdsArgs, mode \in FilterArgs :
           LinksInit(sentence_ids, mode) /\ UNCHANGED <<svars, pvars, avars, ivars>>
    \/ \E r \in LinkRows : LinksRow(r) /\ UNCHANGED <<svars, pvars, avars, ivars>>
    \/ LinksFinish /\ UNCHANGED <<svars, pvars, avars, ivars>>

SpecLinks == InitLinks /\ [][NextLinks]_vars

InitSent == InitLinks

NextSent ==
    \/ \E langs \in LanguagesArgs, sub \in SubsetArgs :
           SentInit(langs, sub) /\ UNCHANGED <<lvars, pvars, avars, ivars>>
    \/ SentEmpty /\ UNCHANGED <<lvars, pvars, avars, ivars>>
    \/ \E r \in SentRows : SentFirstRow(r) /\ UNCHANGED <<lvars, pvars, avars, ivars>>
    \/ \E r \in SentRows : SentRow(r) /\ UNCHANGED <<lvars, pvars, avars, ivars>>
    \/ SentFinish /\ UNCHANGED <<lvars, pvars, avars, ivars>>

SpecSent == InitSent /\ [][NextSent]_vars

InitParse == InitLinks

NextParse ==
    \/ \E p \in Pieces : TextPiece(p) /\ UNCHANGED <<lvars, svars, avars, ivars>>
    \/ ParseSentence /\ UNCHANGED <<lvars, svars, avars, ivars>>

SpecParse == InitParse /\ [][NextParse]_vars

InitAdjust == LinksIdle /\ SentIdle /\ ParseIdle /\ AdjustInput /\ IndexIdle

NextAdjust == AdjustDetails /\ UNCHANGED <<lvars, svars, pvars, ivars>>

SpecAdjust == InitAdjust /\ [][NextAdjust]_vars

InitIndex == InitLinks

NextIndex ==
    \/ \E ed \in IndexEdictArgs, sentence_ids \in IndexSentenceIdsArgs :
           IndexInit(ed, sentence_ids) /\ UNCHANGED <<lvars, svars, pvars>>
    \/ \E r \in IndexRows : IndexRow(r) /\ UNCHANGED <<lvars, svars, pvars>>
    \/ IndexFinish /\ UNCHANGED <<lvars, svars, pvars>>

SpecIndex == InitIndex /\ [][NextIndex]_vars

---------------------------------------------------------------------------
(* Properties of TatoebaLinksReader *)

KeptIds == UNION {{e[1], e[2]} : e \in kept}

(* C1: when no kept edge arrived with its two ids already in two different
   groups, the groups of the loaded reader are pairwise disjoint and cover
   exactly the ids of the kept edges, group(m) = group(id) for every member
   m of group(id), and group(x) raises InvalidIDError for every id x that
   is in no kept edge. *)
C1_Partition ==
    (lpc = "done" /\ ~split) =>
        /\ Groups.exc = ""
        /\ UNION Groups.val.val = KeptIds
        /\ \A n1, n2 \in DOMAIN self_group_dict.val :
               n1 # n2 => self_group_dict.val[n1] \cap self_group_dict.val[n2] = {}
        /\ \A id \in KeptIds :
               /\ Group(id).exc = ""
               /\ id \in Group(id).val.val
               /\ \A m \in Group(id).val.val : Group(m) = Group(id)
        /\ \A x \in Ids \ KeptIds : Group(x).exc = "InvalidIDError"

C1_Witness ==
    /\ lpc = "done"
    /\ ~split
    /\ Cardinality(kept) = 3
    /\ Cardinality(Groups.val.val) = 2
    /\ KeptIds # Ids

(* C2: a source whose every edge shares an endpoint with the edge before
   it, loaded without an allow-list, gives exactly one group, the set of
   all endpoints, and group(id) is that set for every endpoint (the first
   and the last id of the chain among them). *)
C2_Chain ==
    (lpc = "done" /\ chain /\ nrows >= 1 /\ ~sentence_id_subset.some) =>
        /\ Cardinality(DOMAIN self_group_dict.val) = 1
        /\ Groups = Returned({KeptIds})
        /\ \A id \in KeptIds : Group(id) = Returned(KeptIds)

C2_Witness ==
    /\ lpc = "done"
    /\ chain
    /\ nrows = 3
    /\ ~sentence_id_subset.some
    /\ Cardinality(KeptIds) = 4
    /\ Groups = Returned({Ids})

EdgeOf(r) == <<DecimalValue(r[1]), DecimalValue(r[2])>>

(* What the claim says the filter keeps. *)
ClaimKeeps(mode, ids, e) ==
    \/ ~ids.some
    \/ mode = "sent_id" /\ e[1] \in ids.val
    \/ mode = "trans_id" /\ e[2] \in ids.val
    \/ mode = "both" /\ e[1] \in ids.val /\ e[2] \in ids.val

(* C3: reading an edge, the edge takes part in grouping (both its ids are
   assigned, to the same group, afterwards) exactly when the allow-list is
   None or the endpoint(s) the mode selects are in the allow-list; a dropped
   edge leaves the assignment map, the groups and the counter as they
   were. *)
C3_Filter ==
    [][(lpc = "loading" /\ lpc' = "loading" /\ nrows' = nrows + 1) =>
          LET e == EdgeOf(row')
          IN  /\ last_kept' <=> ClaimKeeps(filter_str.val, sentence_id_subset, e)
              /\ last_kept' =>
                    /\ {e[1], e[2]} \subseteq DOMAIN link_dict'
                    /\ link_dict'[e[1]] = link_dict'[e[2]]
                    /\ {e[1], e[2]} \subseteq group_dict'[link_dict'[e[1]]]
              /\ ~last_kept' =>
                    /\ link_dict' = link_dict
                    /\ group_dict' = group_dict
                    /\ nodes' = nodes]_vars

C3_Witness ==
    /\ lpc = "loading"
    /\ nrows = 2
    /\ kept # {}
    /\ ~last_kept
    /\ filter_str = Some("trans_id")
    /\ EdgeOf(row)[1] \in sentence_id_subset.val
    /\ EdgeOf(row)[2] \notin sentence_id_subset.val

(* A row of exactly two integer fields. *)
TwoIntegers(r) == Len(r) = 2 /\ IsDigits(r[1]) /\ IsDigits(r[2])

(* C8: once a row that is not exactly two integers has been read, the load
   has failed with InvalidFileError and nothing was published: neither
   dict is assigned, so groups(), group(id) and self[id] return nothing
   (each raises AttributeError) for every id, the ids of the edges read
   before the bad row among them. *)
C8_BadRowFatal ==
    (nrows >= 1 /\ ~TwoIntegers(row)) =>
        /\ lpc = "InvalidFileError"
        /\ self_link_dict = None
        /\ self_group_dict = None
        /\ Groups = Raised("AttributeError")
        /\ \A x \in Ids :
               /\ Group(x) = Raised("AttributeError")
               /\ LinksGetItem(x) = Raised("AttributeError")

C8_Witness ==
    /\ lpc = "InvalidFileError"
    /\ nrows = 3
    /\ Cardinality(kept) = 2
    /\ Len(row) = 3

(* C12: a reader constructed with a filter mode outside the recognized
   set, with or without an allow-list, has failed with ValueError in
   __init__: no row of the links source was read, no mode and no index were
   stored, and groups(), group(id) and self[id] return nothing (each
   raises AttributeError). *)
C12_BadMode ==
    (sentence_ids_filter.some
        /\ Lower(sentence_ids_filter.val) \notin {"sent_id", "trans_id", "both"}) =>
        /\ lpc = "ValueError"
        /\ nrows = 0
        /\ kept = {}
        /\ filter_str = None
        /\ self_link_dict = None
        /\ self_group_dict = None
        /\ Groups = Raised("AttributeError")
        /\ \A x \in Ids :
               /\ Group(x) = Raised("AttributeError")
               /\ LinksGetItem(x) = Raised("AttributeError")

C12_Witness ==
    /\ lpc = "ValueError"
    /\ sentence_ids_filter = Some("sentence_id")
    /\ ~sentence_id_subset.some
    /\ nrows = 0

(* The ids one kept edge away from S, with S. *)
Adjacent(S) ==
    S \cup {e[2] : e \in {k \in kept : k[1] \in S}}
      \cup {e[1] : e \in {k \in kept : k[2] \in S}}

RECURSIVE Closure(_)
Closure(S) == IF Adjacent(S) = S THEN S ELSE Closure(Adjacent(S))

(* Every two ids of g are joined by a path of kept edges. *)
Connected(g) == \A a \in g : g \subseteq Closure({a})

(* C14: at every point of the load, and in the published index, any two
   members of one group are joined by a path of the edges kept so far. *)
C14_Connected ==
    /\ \A n \in DOMAIN group_dict : Connected(group_dict[n])
    /\ Groups.exc = "" => \A g \in Groups.val.val : Connected(g)

C14_Witness ==
    /\ lpc = "done"
    /\ split
    /\ Cardinality(kept) = 3
    /\ Cardinality(Groups.val.val) = 2
    /\ \E g \in Groups.val.val : Cardinality(g) = 3 /\ 4 \notin g

(* C15: at every point of the load, and in the published index, every
   group has at least two members, whatever integer pairs the source holds
   (a row with two equal ids among them). *)
C15_TwoMembers ==
    /\ \A n \in DOMAIN group_dict : Cardinality(group_dict[n]) >= 2
    /\ Groups.exc = "" => \A g \in Groups.val.val : Cardinality(g) >= 2

(* The node ids whose member set holds id. *)
GroupsOf(gd, id) == {n \in DOMAIN gd : id \in gd[n]}

(* C16: at every point of the load, every id that is a member of some
   group is in the member set of exactly one group, and is assigned that
   group's id. *)
C16_OneGroup ==
    \A id \in UNION Range(group_dict) :
        /\ Cardinality(GroupsOf(group_dict, id)) = 1
        /\ id \in DOMAIN link_dict
        /\ GroupsOf(group_dict, id) = {link_dict[id]}

(* One step of the load keeps every group and every member of it, and
   takes the id of a new group from the counter. *)
GroupsGrow ==
    /\ DOMAIN group_dict \subseteq DOMAIN group_dict'
    /\ \A n \in DOMAIN group_dict : group_dict[n] \subseteq group_dict'[n]
    /\ nodes' >= nodes
    /\ DOMAIN group_dict = 0..(nodes - 1)
    /\ DOMAIN group_dict' = 0..(nodes' - 1)
    /\ nodes' <= nodes + 1

(* C17: the counter starts at 0; no step of the load removes a member
   from a group, deletes a group or gives a group another id; the counter
   never decreases, and a new group takes the counter's value as its id,
   an id no group had before. *)
C17_Monotonic == (nodes = 0) /\ [][GroupsGrow]_vars

C17_Witness ==
    /\ lpc = "done"
    /\ split
    /\ nodes = 2
    /\ nrows = 3
    /\ Cardinality(UNION Range(group_dict)) = 4

(* The row read in this step is a kept edge whose two ids were assigned
   to two different groups. *)
JoinsTwoGroups ==
    /\ lpc = "loading"
    /\ lpc' = "loading"
    /\ nrows' = nrows + 1
    /\ last_kept'
    /\ {EdgeOf(row')[1], EdgeOf(row')[2]} \subseteq DOMAIN link_dict
    /\ link_dict[EdgeOf(row')[1]] # link_dict[EdgeOf(row')[2]]

(* C18: a kept edge (a, b) with a assigned to g1 and b to another group g2
   merges nothing: afterwards b is a member of g1 and assigned to g1, a is
   still assigned to g1, g1 gained nothing but b, the member set of g2 and
   of every other group is as before, every id other than b is assigned as
   before, and the counter is as before. *)
C18_NoMerge ==
    [][JoinsTwoGroups =>
          LET a == EdgeOf(row')[1]
              b == EdgeOf(row')[2]
              g1 == link_dict[a]
          IN  /\ b \in group_dict'[g1]
              /\ link_dict'[b] = g1
              /\ link_dict'[a] = g1
              /\ group_dict'[g1] = group_dict[g1] \cup {b}
              /\ DOMAIN group_dict' = DOMAIN group_dict
              /\ \A n \in DOMAIN group_dict \ {g1} :
                     group_dict'[n] = group_dict[n]
              /\ DOMAIN link_dict' = DOMAIN link_dict
              /\ \A k \in DOMAIN link_dict \ {b} : link_dict'[k] = link_dict[k]
              /\ nodes' = nodes]_vars

C18_Witness ==
    /\ lpc = "loading"
    /\ split
    /\ last_kept
    /\ nrows = 3
    /\ nodes = 2
    /\ link_dict[EdgeOf(row)[1]] = link_dict[EdgeOf(row)[2]]
    /\ \E n \in DOMAIN group_dict :
           /\ n # link_dict[EdgeOf(row)[2]]
           /\ EdgeOf(row)[2] \in group_dict[n]
           /\ Cardinality(group_dict[n]) = 2

(* C19: in the loaded reader the keys are exactly the endpoints of the
   kept edges; every key is assigned a node id that group_dict has and is
   a member of that group, so self[id] and group(id) return a set that
   holds id. *)
C19_KeysResolve ==
    (lpc = "done") =>
        /\ DOMAIN self_link_dict.val = KeptIds
        /\ \A id \in DOMAIN self_link_dict.val :
               /\ self_link_dict.val[id] \in DOMAIN self_group_dict.val
               /\ id \in self_group_dict.val[self_link_dict.val[id]]
               /\ LinksGetItem(id).exc = ""
               /\ id \in LinksGetItem(id).val.val
               /\ Group(id).exc = ""
               /\ id \in Group(id).val.val

C19_Witness ==
    /\ lpc = "done"
    /\ split
    /\ sentence_id_subset.some
    /\ nrows = 3
    /\ DOMAIN self_link_dict.val = {2, 3, 4}
    /\ \E id \in KeptIds : Cardinality(GroupsOf(self_group_dict.val, id)) = 2

---------------------------------------------------------------------------
(* Properties of TatoebaSentenceReader *)

(* C9: whenever a row with a column count other than 3 or 6 has been read,
   at whatever position, the load has failed with InvalidFileError and no
   sentence index was assigned. *)
C9_RowShape ==
    (snrows >= 1 /\ Len(srow) \notin {3, 6}) =>
        (spc = "InvalidFileError" /\ self_sentence_dict = None)

(* The rows of the source that pass the row filter and the language
   allow-list. *)
Surviving ==
    {r \in ssrc :
        /\ Len(r) >= 3
        /\ (languages.some => r[2] \in languages.val)
        /\ PyInt(r[1]).some
        /\ (subset.some => DecimalValue(r[1]) \in subset.val)}

(* No two different rows of the source carry the same id. *)
UniqueIds ==
    \A r1, r2 \in {r \in ssrc : Len(r) >= 1 /\ PyInt(r[1]).some} :
        DecimalValue(r1[1]) = DecimalValue(r2[1]) => r1 = r2

(* C10: after a load of a source with unique ids, the ids that can be
   looked up are exactly the ids of the surviving rows, and sentence(id)
   is the text column of the row with that id. *)
C10_Loaded ==
    (spc = "done" /\ UniqueIds) =>
        /\ DOMAIN self_sentence_dict.val = {DecimalValue(r[1]) : r \in Surviving}
        /\ \A r \in Surviving : Sentence(DecimalValue(r[1])) = Returned(r[3])

C10_Witness ==
    /\ spc = "done"
    /\ UniqueIds
    /\ snrows = 3
    /\ Cardinality(ssrc) = 3
    /\ Cardinality(Surviving) = 2
    /\ languages.some
    /\ \E r \in Surviving : r[1] = <<"0", "2">> /\ Sentence(2) = Returned(r[3])

(* Every row of the source has n columns. *)
AllColumns(n) == \A r \in ssrc : Len(r) = n

(* A field of a detail record: none for \N. *)
NullAsNone(field, value) == IF field = "\\N" THEN None ELSE value

(* The detail record the claim describes for a six-column row. *)
ClaimRecord(r) ==
    <<NullAsNone(r[4], Some(r[4])), NullAsNone(r[5], Strptime(r[5])),
      NullAsNone(r[6], Strptime(r[6]))>>

(* C11: after a load of a three-column source details(id) raises
   MissingDataError for every id, loaded or not; after a load of a
   six-column source it raises InvalidIDError for an id that was not loaded
   and otherwise returns the (username, date_added, date_modified) of the
   row with that id (ids unique), each \N field being None. *)
C11_Details ==
    (spc = "done") =>
        /\ AllColumns(3) =>
               \A id \in Ids : Details(id).exc = "MissingDataError"
        /\ AllColumns(6) =>
               \A id \in Ids :
                   IF id \notin DOMAIN self_sentence_dict.val
                   THEN Details(id).exc = "InvalidIDError"
                   ELSE /\ Details(id).exc = ""
                        /\ UniqueIds =>
                               \A r \in Surviving :
                                   DecimalValue(r[1]) = id =>
                                       Details(id).val = Some(ClaimRecord(r))

C11_Witness ==
    /\ spc = "done"
    /\ AllColumns(6)
    /\ UniqueIds
    /\ snrows = 2
    /\ DOMAIN self_sentence_dict.val = {1, 2}
    /\ Details(1).val = Some(<<None, None, None>>)
    /\ Details(2).val = Some(<<Some("MB"), Some(<<2010, 6, 24, 14, 20, 28>>), None>>)
    /\ Details(3).exc = "InvalidIDError"

---------------------------------------------------------------------------
(* Properties of TatoebaIndexReader.parse_sentence *)

HeadOK(w, i) == \A k \in 1..i : w[k] \notin HeadwordExcluded

IsEnclosed(w, a, b, open, close) ==
    /\ b - a >= 2
    /\ w[a] = open
    /\ w[b] = close
    /\ \A k \in (a + 1)..(b - 1) : w[k] # close

IsSense(w, a, b) ==
    /\ b - a >= 2
    /\ w[a] = "["
    /\ w[b] = "]"
    /\ \A k \in (a + 1)..(b - 1) : w[k] \in Digits

IsTrailing(w, a) == \A k \in a..Len(w) : w[k] \in Digits

(* The word records the grammar gives for the whole of token w: a headword
   w[1..i0], then optionally a reading ending at i1, a sense ending at i2,
   a display ending at i3, the marker at i4, and digits to the end. *)
GrammarParses(w) ==
    LET L == Len(w)
        Rec(i0, i1, i2, i3, i4) ==
            [headword |-> SubSeq(w, 1, i0),
             reading |-> IF i1 = i0 THEN None
                         ELSE Some(SubSeq(w, i0 + 2, i1 - 1)),
             sense |-> IF i2 = i1 THEN None
                       ELSE Some(DecimalValue(SubSeq(w, i1 + 2, i2 - 1))),
             display |-> IF i3 = i2 THEN None
                         ELSE Some(SubSeq(w, i2 + 2, i3 - 1)),
             example |-> i4 # i3]
        ReadingEnds(i0) ==
            {i0} \cup {b \in (i0 + 1)..L : IsEnclosed(w, i0 + 1, b, "(", ")")}
        SenseEnds(i1) == {i1} \cup {b \in (i1 + 1)..L : IsSense(w, i1 + 1, b)}
        DisplayEnds(i2) ==
            {i2} \cup {b \in (i2 + 1)..L : IsEnclosed(w, i2 + 1, b, "{", "}")}
        ExampleEnds(i3) ==
            {i3} \cup (IF i3 + 1 <= L /\ w[i3 + 1] = "~" THEN {i3 + 1} ELSE {})
    IN  UNION {UNION {UNION {UNION {
            {Rec(i0, i1, i2, i3, i4) : i4 \in {i \in ExampleEnds(i3) :
                                                  IsTrailing(w, i + 1)}}
            : i3 \in DisplayEnds(i2)}
            : i2 \in SenseEnds(i1)}
            : i1 \in ReadingEnds(i0)}
            : i0 \in {i \in 1..L : HeadOK(w, i)}}

Conforms(w) == GrammarParses(w) # {}

IsNonEmpty(w) == Len(w) > 0

Tokens == SelectSeq(SentenceSplitter(ptext), IsNonEmpty)

StartsExcluded(w) == w[1] \in HeadwordExcluded

(* C5, as stated: a sentence with a non-empty token that does not conform
   to the grammar in its entirety fails with InvalidEntryError. *)
C5_NonConformingFails ==
    (ppc # "input" /\ \E k \in 1..Len(Tokens) : ~Conforms(Tokens[k])) =>
        ppc = "InvalidEntryError"

(* C5, amended: parsing fails with InvalidEntryError exactly when some
   non-empty token starts with one of ( [ { | ~; the error carries the
   first such token and the whole text, and no word list is returned.  A
   token that starts with a headword character never fails. *)
C5_BadStartFails ==
    (ppc # "input") =>
        LET bad == {k \in 1..Len(Tokens) : StartsExcluded(Tokens[k])}
        IN  /\ (ppc = "InvalidEntryError") <=> (bad # {})
            /\ bad # {} =>
                  /\ perror = Some(<<Tokens[Min(bad)], ptext>>)
                  /\ psentence = << >>
            /\ bad = {} => (ppc = "parsed" /\ perror = None)

C5_Witness ==
    /\ ppc = "InvalidEntryError"
    /\ Len(Tokens) = 2
    /\ ~StartsExcluded(Tokens[1])
    /\ ~Conforms(Tokens[1])
    /\ perror = Some(<<Tokens[2], ptext>>)

(* C6: when every non-empty token conforms to the grammar, parsing returns
   one word per non-empty token, in order, and each word is a record the
   grammar gives for its token: the matched headword, reading and display,
   the integer value of the sense digits, example true exactly when the
   marker is there, None for every absent field. *)
C6_Records ==
    (ppc # "input" /\ \A k \in 1..Len(Tokens) : Conforms(Tokens[k])) =>
        /\ ppc = "parsed"
        /\ Len(psentence) = Len(Tokens)
        /\ \A k \in 1..Len(Tokens) : psentence[k] \in GrammarParses(Tokens[k])

C6_Witness ==
    /\ ppc = "parsed"
    /\ \A k \in 1..Len(Tokens) : Conforms(Tokens[k])
    /\ Len(SentenceSplitter(ptext)) = 3
    /\ Len(psentence) = 2
    /\ psentence[1].sense = Some(2)
    /\ psentence[2].headword = <<"a">>

---------------------------------------------------------------------------
(* Properties of TatoebaIndexReader.adjust_details *)

(* The candidate the claim describes: Some(reading) or None. *)
ClaimCandidate(readings, sense) ==
    IF sense.some /\ 1 <= sense.val /\ sense.val <= Len(readings)
    THEN Some(readings[sense.val])
    ELSE IF \A i, j \in 1..Len(readings) : readings[i] = readings[j]
    THEN Some(readings[1])
    ELSE None

(* C4: a word passed without a reading whose headword is in the dictionary
   gets the candidate as its reading when there is one and it is not the
   headword, and keeps no reading otherwise. *)
C4_Resolution ==
    (apc = "adjusted" /\ edict.some) =>
        \A k \in 1..Len(awords) :
            (~awords[k].reading.some
                /\ awords[k].headword \in DOMAIN edict.val) =>
                LET c == ClaimCandidate(edict.val[awords[k].headword],
                                        awords[k].sense)
                IN  aresult[k].reading =
                        IF c.some /\ c.val # awords[k].headword
                        THEN c ELSE None

(* C7: adjust_details returns as many words as were passed, in the same
   order; a word that had a reading keeps it; a reading that was filled in
   is not the headword; headword, sense, display and example are as they
   were when passed; without a dictionary the words are returned as they
   were. *)
C7_Frame ==
    (apc = "adjusted") =>
        /\ Len(aresult) = Len(awords)
        /\ \A k \in 1..Len(awords) :
               /\ awords[k].reading.some =>
                      aresult[k].reading = awords[k].reading
               /\ (~awords[k].reading.some /\ aresult[k].reading.some) =>
                      aresult[k].reading.val # aresult[k].headword
               /\ aresult[k].headword = awords[k].headword
               /\ aresult[k].sense = awords[k].sense
               /\ aresult[k].display = awords[k].display
               /\ aresult[k].example = awords[k].example
        /\ ~edict.some => aresult = awords

C7_Witness ==
    /\ apc = "adjusted"
    /\ edict.some
    /\ Len(awords) = 2
    /\ awords[1].headword = <<"a">>
    /\ awords[1].reading = Some(<<"k">>)
    /\ awords[2].headword = <<"a">>
    /\ awords[2].sense = Some(1)
    /\ ~awords[2].reading.some
    /\ aresult[2].reading = Some(<<"k">>)
    /\ aresult # awords
    /\ aresult = asentence

---------------------------------------------------------------------------
(* Properties of TatoebaIndexReader: loading *)

(* C13: after a load with an allow-list, every id whose word list or
   linked meaning can be looked up is in the allow-list. *)
C13_AllowList ==
    (ipc = "done" /\ index_subset.some) =>
        \A id \in Ids :
            (IndexGetItem(id).exc = "" \/ Link(id).exc = "") =>
                id \in index_subset.val

=============================================================================
